---- MODULE Spec2Model ----
(***************************************************************************)
(* The xpkg Marshaler of internal/xpkg/dep/marshaler/xpkg/marshaler.go:    *)
(* FromImage / FromDir -> parse -> finalizePkg, with the helpers           *)
(* derivePkgName, determineDeps, convertToV1beta1, validatorsFrom* and     *)
(* skipDigest.                                                             *)
(*                                                                         *)
(* Conventions.  A Go pointer or nilable value is a sequence of length 0   *)
(* (nil) or 1 (the pointee).  A Go error is the sequence of its messages,  *)
(* outermost first; the nil error is the empty sequence.  A directory path *)
(* is a sequence of text tokens, so that strings.Split can be computed; a  *)
(* file path is the sequence of its components.                            *)
(***************************************************************************)
EXTENDS Naturals, Sequences, FiniteSets, TLC

VARIABLES pc, input, cells, reader, pkg, args, deps, v, idx, ran, result

vars == <<pc, input, cells, reader, pkg, args, deps, v, idx, ran, result>>

-----------------------------------------------------------------------------
(* Bounds of the model *)

NumCalls == 2
MaxPathLen == 3
MaxFiles == 3
MaxMetas == 2
MaxDeps == 2
MaxObjs == 2
MaxVersions == 2

-----------------------------------------------------------------------------
(* Constants of marshaler.go, lines 53-65 *)

errFailedToParsePkgYaml == "failed to parse package yaml"
errLintPackage == "failed to lint package"
errOpenPackageStream == "failed to open package stream file"
errFaileToAcquireDigest == "failed to pull digest from image"
errFailedToConvertMetaToPackage == "failed to convert meta to package"
errInvalidPath == "invalid path provided for package lookup"
errNotExactlyOneMeta == "not exactly one package meta type"
errObjectNotKnownType == "object is not a known type"
digestPrefix == "sha256:"
dockerhub == "index.docker.io"

ConfigurationKind == "Configuration"
ConfigurationPackageType == "Configuration"
ProviderPackageType == "Provider"

-----------------------------------------------------------------------------
(* Pointers and errors *)

Nil == << >>
Ptr(x) == <<x>>
Deref(p) == p[1]

NoErr == << >>
errorsNew(msg) == <<msg>>
errorsWrap(err, msg) == <<msg>> \o err

-----------------------------------------------------------------------------
(* strings.Split(path, "@"), strings.HasPrefix, filepath.Base *)

RECURSIVE Split(_)
Split(s) ==
    IF s = << >> THEN <<"">>
    ELSE LET rest == Split(Tail(s))
         IN  IF Head(s) = "@"
             THEN <<"">> \o rest
             ELSE <<Head(s) \o rest[1]>> \o Tail(rest)

\* The text a token sequence stands for.
RECURSIVE Text(_)
Text(s) == IF s = << >> THEN "" ELSE Head(s) \o Text(Tail(s))

\* strings.HasPrefix on a token sequence whose tokens never straddle the prefix.
HasPrefix(s, prefix) == Len(s) >= 1 /\ s[1] = prefix

\* filepath.Base: the last component of a file path.
Base(path) == path[Len(path)]

-----------------------------------------------------------------------------
(* derivePkgName, lines 222-227 *)

derivePkgNameAlwaysQualified(registry, repo) == registry \o "/" \o repo

derivePkgName(registry, repo) ==
    IF registry # dockerhub
    THEN registry \o "/" \o repo
    ELSE repo

-----------------------------------------------------------------------------
(* convertToV1beta1, lines 243-258, and determineDeps, lines 229-241 *)

convertToV1beta1ProviderWins(in) ==
    IF in.Provider # Nil
    THEN [Package |-> Deref(in.Provider), Type |-> ProviderPackageType,
          Constraints |-> in.Version]
    ELSE IF in.Configuration # Nil
    THEN [Package |-> Deref(in.Configuration), Type |-> ConfigurationPackageType,
          Constraints |-> in.Version]
    ELSE [Package |-> "", Type |-> "", Constraints |-> in.Version]

convertToV1beta1(in) ==
    LET betaD == [Package |-> "", Type |-> "", Constraints |-> in.Version]
        d1 == IF in.Provider # Nil /\ in.Configuration = Nil
              THEN [betaD EXCEPT !.Package = Deref(in.Provider),
                                 !.Type = ProviderPackageType]
              ELSE betaD
        d2 == IF in.Configuration # Nil /\ in.Provider = Nil
              THEN [d1 EXCEPT !.Package = Deref(in.Configuration),
                              !.Type = ConfigurationPackageType]
              ELSE d1
    IN  d2

\* xpkg.TryConvertToPkg is a collaborator: the meta object records whether it
\* converts (o.convertible) and the dependencies the converted package declares.
RECURSIVE DropAnomalous(_)
DropAnomalous(ds) ==
    IF ds = << >> THEN << >>
    ELSE IF convertToV1beta1(Head(ds)).Type = ""
         THEN DropAnomalous(Tail(ds))
         ELSE <<convertToV1beta1(Head(ds))>> \o DropAnomalous(Tail(ds))

determineDepsDropping(o) ==
    IF ~o.convertible
    THEN [out |-> Nil, err |-> errorsNew(errFailedToConvertMetaToPackage)]
    ELSE [out |-> Ptr(DropAnomalous(o.deps)), err |-> NoErr]

determineDeps(o) ==
    IF ~o.convertible
    THEN [out |-> Nil, err |-> errorsNew(errFailedToConvertMetaToPackage)]
    ELSE [out |-> Ptr([i \in 1..Len(o.deps) |-> convertToV1beta1(o.deps[i])]),
          err |-> NoErr]

-----------------------------------------------------------------------------
(* The schema validators, lines 260-355 *)

gvk(group, version, kind) == [Group |-> group, Version |-> version, Kind |-> kind]

EmptyMap == << >>

\* acc[k] = sv on a Go map.
MapPutIfAbsent(acc, k, sv) ==
    [x \in (DOMAIN acc) \cup {k} |-> IF x \in DOMAIN acc THEN acc[x] ELSE sv]

MapPut(acc, k, sv) ==
    [x \in (DOMAIN acc) \cup {k} |-> IF x = k THEN sv ELSE acc[x]]

Built(sv) == [sv |-> sv, err |-> NoErr, panic |-> FALSE]
Failed(err) == [sv |-> Nil, err |-> err, panic |-> FALSE]
Panicked == [sv |-> Nil, err |-> NoErr, panic |-> TRUE]

\* A schema document is "bad" when the schema collaborators reject it (the
\* conversion to OpenAPI fails, or the raw bytes do not decode).
BadDoc == "bad"

\* validation.NewSchemaValidator of k8s: a nil validation gives the validator of
\* the empty schema.
NewSchemaValidator(cv) ==
    IF cv = Nil THEN Built(Ptr([schema |-> "empty"]))
    ELSE IF Deref(cv) = BadDoc THEN Failed(<<"schema conversion failed">>)
    ELSE Built(Ptr([schema |-> Deref(cv)]))

\* newV1SchemaValidator, lines 336-347.
newV1SchemaValidator(schema) ==
    IF schema = BadDoc THEN Failed(<<"schema conversion failed">>)
    ELSE Built(Ptr([schema |-> schema]))

\* json.Unmarshal(raw, &props) followed by newV1SchemaValidator(props).
UnmarshalAndBuild(raw) ==
    IF raw = BadDoc THEN Failed(<<"json: cannot unmarshal schema">>)
    ELSE newV1SchemaValidator(raw)

\* The body shared by the `for _, v := range ...Versions` loops: entries[i] is
\* [Name, built], built being what the validator constructor gives for version
\* i. The loop returns at the first version that fails; the entries written
\* before it stay in acc.
RECURSIVE RangeVersions(_, _, _, _)
RangeVersions(entries, group, kind, acc) ==
    IF entries = << >> THEN [acc |-> acc, err |-> NoErr, panic |-> FALSE]
    ELSE LET e == Head(entries)
         IN  IF e.built.panic THEN [acc |-> acc, err |-> NoErr, panic |-> TRUE]
             ELSE IF e.built.err # NoErr
                  THEN [acc |-> acc, err |-> e.built.err, panic |-> FALSE]
                  ELSE RangeVersions(Tail(entries), group, kind,
                           MapPut(acc, gvk(group, e.Name, kind), e.built.sv))

\* Convert_v1beta1_CustomResourceDefinition_To_apiextensions_CustomResourceDefinition
\* of k8s, called at line 263: it may fail; it keeps group, kind, validation and
\* versions, and when no versions are listed it makes one of the deprecated
\* singular spec.version.
ConvertV1Beta1CRD(c) ==
    IF c.convErr THEN [err |-> <<"conversion failed">>, internal |-> c]
    ELSE [err |-> NoErr,
          internal |->
            IF Len(c.Versions) = 0 /\ c.Version # ""
            THEN [c EXCEPT !.Versions = <<[Name |-> c.Version, Schema |-> Nil]>>]
            ELSE c]

validatorsFromV1Beta1CRDPerVersion(c, acc) ==
    LET conv == ConvertV1Beta1CRD(c)
        internal == conv.internal
    IN  IF conv.err # NoErr THEN [acc |-> acc, err |-> conv.err, panic |-> FALSE]
        ELSE RangeVersions(
                 [i \in 1..Len(internal.Versions) |->
                     [Name |-> internal.Versions[i].Name,
                      built |-> NewSchemaValidator(
                                   IF internal.Versions[i].Schema # Nil
                                   THEN internal.Versions[i].Schema
                                   ELSE internal.Validation)]],
                 internal.Group, internal.Kind, acc)

validatorsFromV1Beta1CRD(c, acc) ==
    LET conv == ConvertV1Beta1CRD(c)
        internal == conv.internal
    IN  IF conv.err # NoErr THEN [acc |-> acc, err |-> conv.err, panic |-> FALSE]
        ELSE IF internal.Validation # Nil
        THEN LET sv == NewSchemaValidator(internal.Validation)
             IN  IF sv.err # NoErr
                 THEN [acc |-> acc, err |-> sv.err, panic |-> FALSE]
                 ELSE RangeVersions(
                          [i \in 1..Len(internal.Versions) |->
                              [Name |-> internal.Versions[i].Name, built |-> sv]],
                          internal.Group, internal.Kind, acc)
        ELSE RangeVersions(
                 [i \in 1..Len(internal.Versions) |->
                     [Name |-> internal.Versions[i].Name,
                      built |-> NewSchemaValidator(internal.Versions[i].Schema)]],
                 internal.Group, internal.Kind, acc)

\* `*v.Schema.OpenAPIV3Schema` (line 291) dereferences the version's schema
\* pointer: a version without a schema is a nil pointer dereference.
validatorsFromV1CRD(c, acc) ==
    RangeVersions(
        [i \in 1..Len(c.Versions) |->
            [Name |-> c.Versions[i].Name,
             built |-> IF c.Versions[i].Schema = Nil THEN Panicked
                       ELSE newV1SchemaValidator(Deref(c.Versions[i].Schema))]],
        c.Group, c.Kind, acc)

\* `v.Schema.OpenAPIV3Schema.Raw` (lines 304, 321) reads through the version's
\* schema pointer as well.
validatorsFromV1Beta1XRD(x, acc) ==
    RangeVersions(
        [i \in 1..Len(x.Versions) |->
            [Name |-> x.Versions[i].Name,
             built |-> IF x.Versions[i].Schema = Nil THEN Panicked
                       ELSE UnmarshalAndBuild(Deref(x.Versions[i].Schema))]],
        x.Group, x.Kind, acc)

validatorsFromV1XRD(x, acc) ==
    RangeVersions(
        [i \in 1..Len(x.Versions) |->
            [Name |-> x.Versions[i].Name,
             built |-> IF x.Versions[i].Schema = Nil THEN Panicked
                       ELSE UnmarshalAndBuild(Deref(x.Versions[i].Schema))]],
        x.Group, x.Kind, acc)

V1Beta1CRD == "v1beta1.CustomResourceDefinition"
V1CRD == "v1.CustomResourceDefinition"
V1Beta1XRD == "v1beta1.CompositeResourceDefinition"
V1XRD == "v1.CompositeResourceDefinition"
KnownShapes == {V1Beta1CRD, V1CRD, V1Beta1XRD, V1XRD}

\* The type switch of finalizePkg, lines 189-208, on one body object.
DispatchSkippingUnknown(o, acc) ==
    CASE o.shape = V1Beta1CRD -> validatorsFromV1Beta1CRD(o, acc)
      [] o.shape = V1CRD -> validatorsFromV1CRD(o, acc)
      [] o.shape = V1Beta1XRD -> validatorsFromV1Beta1XRD(o, acc)
      [] o.shape = V1XRD -> validatorsFromV1XRD(o, acc)
      [] OTHER -> [acc |-> acc, err |-> NoErr, panic |-> FALSE]

Dispatch(o, acc) ==
    CASE o.shape = V1Beta1CRD -> validatorsFromV1Beta1CRD(o, acc)
      [] o.shape = V1CRD -> validatorsFromV1CRD(o, acc)
      [] o.shape = V1Beta1XRD -> validatorsFromV1Beta1XRD(o, acc)
      [] o.shape = V1XRD -> validatorsFromV1XRD(o, acc)
      [] OTHER -> [acc |-> acc, err |-> errorsNew(errObjectNotKnownType),
                   panic |-> FALSE]

-----------------------------------------------------------------------------
(* The inputs of a marshal call: its arguments and what its collaborators    *)
(* (image, filesystem, parser, linters, TryConvertToPkg) answer for them.    *)

SeqsUpTo(S, n) == UNION {[1..k -> S] : k \in 0..n}

Calls == 1..NumCalls

Registries == {dockerhub, "xpkg.upbound.io"}
Repos == {"myrepo", "upbound/provider-aws"}

PathTokens == {"foo", "@", "v1.2.3"}
Paths == SeqsUpTo(PathTokens, MaxPathLen)

\* The entries a package directory may hold, in the lexical order afero.Walk
\* visits them; entry 6 lies in the subdirectory that is entry 5.
FileUniverse ==
    << [path |-> << <<"package.yaml">> >>, isDir |-> FALSE],
       [path |-> << <<digestPrefix, "abc">> >>, isDir |-> FALSE],
       [path |-> << <<digestPrefix, "def">> >>, isDir |-> FALSE],
       [path |-> << <<digestPrefix, "dir">> >>, isDir |-> TRUE],
       [path |-> << <<"sub">> >>, isDir |-> TRUE],
       [path |-> << <<"sub">>, <<digestPrefix, "sub">> >>, isDir |-> FALSE] >>

FileSets ==
    {F \in SUBSET (1..Len(FileUniverse)) :
        Cardinality(F) <= MaxFiles /\ (6 \in F => 5 \in F)}

\* The walk of NewFsReadCloser(fs, path, ...): the root directory first, then
\* its entries in lexical order.
WalkOrder(in) ==
    LET present == SelectSeq([i \in 1..Len(FileUniverse) |-> i],
                             LAMBDA i : i \in in.fs.files)
    IN  <<[path |-> <<in.path>>, isDir |-> TRUE]>>
            \o [k \in 1..Len(present) |-> FileUniverse[present[k]]]

MetaKinds == {ConfigurationKind, "Provider", "Function"}

DepUniverse ==
    [Provider : {Nil, Ptr("crossplane/provider-aws")},
     Configuration : {Nil, Ptr("acme/platform")},
     Version : {">=v1.0.0"}]

MetaObject(kind, convertible, ds) ==
    [kind |-> kind, convertible |-> convertible, deps |-> ds]

Group == "example.org"

Object(shape, kind, versions, validation, version, convErr) ==
    [shape |-> shape, Group |-> Group, Kind |-> kind, Versions |-> versions,
     Validation |-> validation, Version |-> version, convErr |-> convErr]

VersionEntries ==
    {[Name |-> "v1", Schema |-> Nil], [Name |-> "v1", Schema |-> Ptr(BadDoc)],
     [Name |-> "v1", Schema |-> Ptr("s1")], [Name |-> "v1", Schema |-> Ptr("s2")],
     [Name |-> "v2", Schema |-> Ptr("s1")]}

VersionLists == SeqsUpTo(VersionEntries, MaxVersions)

Composition == Object("v1.Composition", "Composition", << >>, Nil, "", FALSE)

PlainObjects ==
    { Object(V1CRD, "Bucket", <<[Name |-> "v1", Schema |-> Ptr("s2")]>>, Nil, "", FALSE),
      Object(V1XRD, "XBucket", <<[Name |-> "v1", Schema |-> Ptr(BadDoc)]>>, Nil, "", FALSE),
      Composition }

RichObjects ==
    {Object(V1Beta1CRD, "Bucket", vs, val, "", FALSE) :
         vs \in VersionLists, val \in {Nil, Ptr(BadDoc), Ptr("s0")}}
    \cup {Object(V1Beta1CRD, "Bucket", << >>, val, "v0", FALSE) :
              val \in {Nil, Ptr("s0")}}
    \cup {Object(V1Beta1CRD, "Bucket", <<[Name |-> "v1", Schema |-> Ptr("s1")]>>,
                 Ptr("s0"), "", TRUE)}
    \cup {Object(shape, "Bucket", vs, Nil, "", FALSE) :
              shape \in {V1CRD, V1Beta1XRD, V1XRD}, vs \in VersionLists}

PlainObjectLists == SeqsUpTo(PlainObjects, MaxObjs)

\* Object lists with one object of any form at any position among plain ones.
RichObjectLists ==
    {IF p <= Len(l) THEN [l EXCEPT ![p] = o] ELSE l :
        l \in PlainObjectLists, p \in 1..MaxObjs, o \in RichObjects}

DefaultMeta == MetaObject("Provider", TRUE, << >>)

DefaultInput ==
    [mode |-> "FromDir", reg |-> "xpkg.upbound.io", repo |-> "myrepo", ver |-> "",
     image |-> [digestErr |-> FALSE, digest |-> "", hasStream |-> FALSE],
     path |-> <<"foo", "@", "v1.2.3">>,
     fs |-> [err |-> FALSE, files |-> {1, 2}],
     parsed |-> [err |-> FALSE, metas |-> <<DefaultMeta>>,
                 objs |-> <<CHOOSE o \in PlainObjects : o.shape = V1CRD>>],
     lint |-> [Configuration |-> FALSE, Provider |-> FALSE]]

DirBases == {[DefaultInput EXCEPT !.reg = r, !.repo = p] : r \in Registries, p \in Repos}

ImageBases ==
    {[DefaultInput EXCEPT !.mode = "FromImage", !.reg = r, !.repo = p, !.ver = "v0.9.0",
                          !.path = << >>, !.fs = [err |-> FALSE, files |-> {}],
                          !.image = [digestErr |-> FALSE,
                                     digest |-> "sha256:img", hasStream |-> TRUE]] :
        r \in Registries, p \in Repos}

Bases == DirBases \cup ImageBases

\* The inputs of the sequential specification: every base varied along one
\* dimension at a time.
Inputs ==
    {[b EXCEPT !.path = p] : b \in DirBases, p \in Paths}
    \cup {[b EXCEPT !.fs = [err |-> e, files |-> F]] :
              b \in DirBases, e \in BOOLEAN, F \in FileSets}
    \cup {[b EXCEPT !.image = [digestErr |-> de, digest |-> "sha256:img",
                               hasStream |-> hs]] :
              b \in ImageBases, de \in BOOLEAN, hs \in BOOLEAN}
    \cup {[b EXCEPT !.parsed.err = TRUE] : b \in Bases}
    \cup {[b EXCEPT !.parsed.metas = ms] :
              b \in Bases,
              ms \in SeqsUpTo({MetaObject(k, c, << >>) :
                                  k \in MetaKinds, c \in BOOLEAN}, MaxMetas)}
    \cup {[b EXCEPT !.parsed.metas = <<MetaObject(k, TRUE, << >>)>>,
                    !.lint = [Configuration |-> lc, Provider |-> lp]] :
              b \in Bases, k \in MetaKinds, lc \in BOOLEAN, lp \in BOOLEAN}
    \cup {[b EXCEPT !.parsed.metas = <<MetaObject(k, TRUE, ds)>>] :
              b \in Bases, k \in {ConfigurationKind, "Provider"},
              ds \in SeqsUpTo(DepUniverse, MaxDeps)}
    \cup {[b EXCEPT !.parsed.objs = os] : b \in Bases, os \in PlainObjectLists}

\* The inputs of the validator specification: an image call and a directory
\* call over the whole range of body-object lists, and over the plain lists
\* under a meta object that does not convert.
ValidatorBases ==
    {b \in Bases : b.reg = dockerhub /\ b.repo = "myrepo"}

ValidatorInputs ==
    {[b EXCEPT !.parsed.objs = os] :
        b \in ValidatorBases, os \in RichObjectLists \cup PlainObjectLists}
    \cup {[b EXCEPT !.parsed.objs = os,
                    !.parsed.metas = <<MetaObject("Provider", FALSE, << >>)>>] :
              b \in ValidatorBases, os \in PlainObjectLists}

\* The inputs of the concurrent specification: directory calls whose digest
\* files differ, an image call, and calls that fail early, fail late and panic.
ConcurrentInputs ==
    {[b EXCEPT !.fs.files = F] :
        b \in {x \in DirBases : x.reg = dockerhub /\ x.repo = "myrepo"},
        F \in {{1}, {1, 2}, {1, 3}}}
    \cup {x \in ImageBases : x.reg # dockerhub /\ x.repo = "myrepo"}
    \cup {[b EXCEPT !.path = <<"foo">>] :
              b \in {x \in DirBases : x.reg # dockerhub /\ x.repo = "myrepo"}}
    \cup {[b EXCEPT !.parsed.objs = os] :
              b \in {x \in DirBases : x.reg # dockerhub /\ x.repo = "myrepo"},
              os \in {<<Composition>>,
                       <<Object(V1CRD, "Bucket", <<[Name |-> "v1", Schema |-> Nil]>>,
                                Nil, "", FALSE)>>}}

-----------------------------------------------------------------------------
(* The state of the calls *)

\* ParsedPackage; `set` lists the fields the code has assigned.
ZeroPackage ==
    [MetaObj |-> Nil, Objs |-> Nil, PType |-> "", Deps |-> Nil, GVKtoV |-> Nil,
     DepName |-> "", Reg |-> "", SHA |-> "", Ver |-> "", set |-> {}]

PackageFields ==
    {"MetaObj", "Objs", "PType", "Deps", "GVKtoV", "DepName", "Reg", "SHA", "Ver"}

In(c) == Deref(input[c])

\* `var digest string` (line 132) and `digest, err := i.Digest()` (line 103)
\* are locals of the call: each call has its own cell.
digestCellShared(c) == 1

digestCell(c) == c

Returned(p, err) == Ptr([pkg |-> p, err |-> err, panic |-> FALSE])
Panic == Ptr([pkg |-> Nil, err |-> NoErr, panic |-> TRUE])

Init ==
    /\ pc = [c \in Calls |-> "idle"]
    /\ input = [c \in Calls |-> Nil]
    /\ cells = [c \in Calls |-> ""]
    /\ reader = [c \in Calls |-> Nil]
    /\ pkg = [c \in Calls |-> Nil]
    /\ args = [c \in Calls |-> Nil]
    /\ deps = [c \in Calls |-> Nil]
    /\ v = [c \in Calls |-> EmptyMap]
    /\ idx = [c \in Calls |-> 0]
    /\ ran = [c \in Calls |-> << >>]
    /\ result = [c \in Calls |-> Nil]

\* return from the call with the given result
Return(c, r, stage) ==
    /\ pc' = [pc EXCEPT ![c] = "done"]
    /\ result' = [result EXCEPT ![c] = r]
    /\ ran' = [ran EXCEPT ![c] = Append(@, stage)]

Goto(c, next, stage) ==
    /\ pc' = [pc EXCEPT ![c] = next]
    /\ ran' = [ran EXCEPT ![c] = Append(@, stage)]
    /\ UNCHANGED result

-----------------------------------------------------------------------------
(* FromImage, lines 102-121 *)

\* i.Digest()
FromImage(c, ins) ==
    /\ pc[c] = "idle"
    /\ \E in \in ins :
        /\ in.mode = "FromImage"
        /\ input' = [input EXCEPT ![c] = Ptr(in)]
        /\ IF in.image.digestErr
           THEN /\ Return(c, Returned(Nil, errorsWrap(<<"image: no digest">>,
                                                     errFaileToAcquireDigest)), "Digest")
                /\ UNCHANGED cells
           ELSE /\ cells' = [cells EXCEPT ![digestCell(c)] = in.image.digest]
                /\ Goto(c, "open", "Digest")
    /\ UNCHANGED <<reader, pkg, args, deps, v, idx>>

\* mutate.Extract, tarfs.New and fs.Open(xpkg.StreamFile)
OpenStream(c) ==
    /\ pc[c] = "open"
    /\ IF ~In(c).image.hasStream
       THEN /\ Return(c, Returned(Nil, errorsWrap(<<"file does not exist">>,
                                                 errOpenPackageStream)), "Open")
            /\ UNCHANGED reader
       ELSE /\ reader' = [reader EXCEPT ![c] = Ptr(<< << <<"package.yaml">> >> >>)]
            /\ Goto(c, "parse", "Open")
    /\ UNCHANGED <<input, cells, pkg, args, deps, v, idx>>

-----------------------------------------------------------------------------
(* FromDir, lines 126-144, and skipDigest, lines 357-367 *)

\* len(parts) != 2, line 128
InvalidPathNoSeparator(path) == Len(Split(path)) < 2

InvalidPath(path) == Len(Split(path)) # 2

\* strings.Split(path, "@") and `var digest string`
FromDir(c, ins) ==
    /\ pc[c] = "idle"
    /\ \E in \in ins :
        /\ in.mode = "FromDir"
        /\ input' = [input EXCEPT ![c] = Ptr(in)]
        /\ IF InvalidPath(in.path)
           THEN /\ Return(c, Returned(Nil, errorsNew(errInvalidPath)), "Split")
                /\ UNCHANGED <<cells, idx, reader>>
           ELSE /\ cells' = [cells EXCEPT ![digestCell(c)] = ""]
                /\ idx' = [idx EXCEPT ![c] = 1]
                /\ reader' = [reader EXCEPT ![c] = Ptr(<< >>)]
                /\ Goto(c, "walk", "Split")
    /\ UNCHANGED <<pkg, args, deps, v>>

\* parser.SkipDirs(): filters every directory.
SkipDirs(e) == e.isDir

\* The filter function skipDigest returns: whether the entry is filtered.
skipDigestMatchWholePath(e) == HasPrefix(e.path[1], digestPrefix)

skipDigestMatch(e) == HasPrefix(Base(e.path), digestPrefix)

\* One callback of the walk of parser.NewFsReadCloser: the filters run in the
\* order given, SkipDirs before skipDigest, and the first that matches drops
\* the entry; a walk that cannot read the directory returns its error.
WalkStep(c) ==
    /\ pc[c] = "walk"
    /\ idx[c] <= Len(WalkOrder(In(c)))
    /\ IF In(c).fs.err
       THEN /\ Return(c, Returned(Nil, <<"walk: cannot read directory">>), "Walk")
            /\ UNCHANGED <<cells, reader, idx>>
       ELSE LET e == WalkOrder(In(c))[idx[c]]
            IN  /\ IF SkipDirs(e) THEN UNCHANGED <<cells, reader>>
                   ELSE IF skipDigestMatch(e)
                   THEN /\ cells' = [cells EXCEPT ![digestCell(c)] = Text(Base(e.path))]
                        /\ UNCHANGED reader
                   ELSE /\ reader' = [reader EXCEPT ![c] = Ptr(Append(Deref(@), e.path))]
                        /\ UNCHANGED cells
                /\ idx' = [idx EXCEPT ![c] = @ + 1]
                /\ Goto(c, "walk", "Walk")
    /\ UNCHANGED <<input, pkg, args, deps, v>>

WalkEnd(c) ==
    /\ pc[c] = "walk"
    /\ idx[c] > Len(WalkOrder(In(c)))
    /\ Goto(c, "parse", "Reader")
    /\ UNCHANGED <<input, cells, reader, pkg, args, deps, v, idx>>

-----------------------------------------------------------------------------
(* Marshaler.parse, lines 146-177 *)

\* r.p.Parse(ctx, reader): the parser the marshaler was built with.
ParseIgnoringError(c) ==
    /\ pc[c] = "parse"
    /\ Goto(c, "classify", "Parse")
    /\ UNCHANGED <<input, cells, reader, pkg, args, deps, v, idx>>

Parse(c) ==
    /\ pc[c] = "parse"
    /\ IF In(c).parsed.err
       THEN Return(c, Returned(Nil, errorsWrap(<<"parser: malformed stream">>,
                                               errFailedToParsePkgYaml)), "Parse")
       ELSE Goto(c, "classify", "Parse")
    /\ UNCHANGED <<input, cells, reader, pkg, args, deps, v, idx>>

\* len(metas) != 1, lines 153-156
ExactlyOneMetaOrFirst(metas) == Len(metas) >= 1

ExactlyOneMeta(metas) == Len(metas) = 1

\* The linter and package type chosen for a meta object, lines 159-167.
ClassifyByProviderKind(meta) ==
    IF meta.kind = "Provider"
    THEN [linter |-> "Provider", pkgType |-> ProviderPackageType]
    ELSE [linter |-> "Configuration", pkgType |-> ConfigurationPackageType]

Classify(meta) ==
    IF meta.kind = ConfigurationKind
    THEN [linter |-> "Configuration", pkgType |-> ConfigurationPackageType]
    ELSE [linter |-> "Provider", pkgType |-> ProviderPackageType]

\* The rest of parse: the meta check, the choice of linter, linter.Lint(pkg)
\* and the ParsedPackage literal of lines 172-176.
ClassifyAndLint(c) ==
    /\ pc[c] = "classify"
    /\ LET metas == In(c).parsed.metas
       IN  IF ~ExactlyOneMeta(metas)
           THEN /\ Return(c, Returned(Nil, errorsNew(errNotExactlyOneMeta)), "Metas")
                /\ UNCHANGED pkg
           ELSE LET meta == metas[1]
                    cl == Classify(meta)
                IN  IF In(c).lint[cl.linter]
                    THEN /\ Return(c, Returned(Nil, errorsWrap(<<"linter: package rejected">>,
                                                              errLintPackage)),
                                   "Lint:" \o cl.linter)
                         /\ UNCHANGED pkg
                    ELSE /\ pkg' = [pkg EXCEPT ![c] =
                                Ptr([ZeroPackage EXCEPT
                                       !.MetaObj = Ptr(meta),
                                       !.Objs = Ptr(In(c).parsed.objs),
                                       !.PType = cl.pkgType,
                                       !.set = {"MetaObj", "Objs", "PType"}])]
                         /\ Goto(c, "finalize", "Lint:" \o cl.linter)
    /\ UNCHANGED <<input, cells, reader, args, deps, v, idx>>

-----------------------------------------------------------------------------
(* finalizePkg, lines 179-219 *)

\* The version argument: ver of FromImage (line 120), parts[1] of FromDir
\* (line 143).
VersionArg(in) == IF in.mode = "FromImage" THEN in.ver ELSE Split(in.path)[2]

\* The call finalizePkg(reg, repo, ver, digest, pkg) evaluates its arguments,
\* the digest among them, and runs determineDeps(pkg.MetaObj), lines 180-186.
DetermineDeps(c) ==
    /\ pc[c] = "finalize"
    /\ args' = [args EXCEPT ![c] =
                   Ptr([reg |-> In(c).reg, repo |-> In(c).repo,
                        ver |-> VersionArg(In(c)),
                        digest |-> cells[digestCell(c)]])]
    /\ LET r == determineDeps(Deref(Deref(pkg[c]).MetaObj))
       IN  IF r.err # NoErr
           THEN /\ Return(c, Returned(Nil, r.err), "determineDeps")
                /\ UNCHANGED <<deps, v, idx>>
           ELSE /\ deps' = [deps EXCEPT ![c] = r.out]
                /\ v' = [v EXCEPT ![c] = EmptyMap]
                /\ idx' = [idx EXCEPT ![c] = 1]
                /\ Goto(c, "validators", "determineDeps")
    /\ UNCHANGED <<input, cells, reader, pkg>>

\* One iteration of `for _, o := range pkg.Objects()`, lines 188-209.
ValidatorStep(c) ==
    /\ pc[c] = "validators"
    /\ idx[c] <= Len(Deref(Deref(pkg[c]).Objs))
    /\ LET o == Deref(Deref(pkg[c]).Objs)[idx[c]]
           r == Dispatch(o, v[c])
       IN  /\ v' = [v EXCEPT ![c] = r.acc]
           /\ IF r.panic
              THEN Return(c, Panic, "validators") /\ UNCHANGED idx
              ELSE IF r.err # NoErr
              THEN Return(c, Returned(Nil, r.err), "validators") /\ UNCHANGED idx
              ELSE /\ idx' = [idx EXCEPT ![c] = @ + 1]
                   /\ Goto(c, "validators", "validators")
    /\ UNCHANGED <<input, cells, reader, pkg, args, deps>>

\* The assignments of lines 211-216 and the return of line 218.
Assemble(c) ==
    /\ pc[c] = "validators"
    /\ idx[c] > Len(Deref(Deref(pkg[c]).Objs))
    /\ LET a == Deref(args[c])
           p == [Deref(pkg[c]) EXCEPT
                    !.Deps = deps[c],
                    !.GVKtoV = Ptr(v[c]),
                    !.DepName = derivePkgName(a.reg, a.repo),
                    !.Reg = a.reg,
                    !.SHA = a.digest,
                    !.Ver = a.ver,
                    !.set = @ \cup {"Deps", "GVKtoV", "DepName", "Reg", "SHA", "Ver"}]
       IN  /\ pkg' = [pkg EXCEPT ![c] = Ptr(p)]
           /\ Return(c, Returned(Ptr(p), NoErr), "assemble")
    /\ UNCHANGED <<input, cells, reader, args, deps, v, idx>>

-----------------------------------------------------------------------------
(* Specifications *)

Step(c) ==
    \/ OpenStream(c)
    \/ WalkStep(c)
    \/ WalkEnd(c)
    \/ Parse(c)
    \/ ClassifyAndLint(c)
    \/ DetermineDeps(c)
    \/ ValidatorStep(c)
    \/ Assemble(c)

\* One marshal call over the whole range of inputs.
Next == FromImage(1, Inputs) \/ FromDir(1, Inputs) \/ Step(1)

Spec == Init /\ [][Next]_vars

\* One marshal call over the whole range of body objects.
NextValidators ==
    FromImage(1, ValidatorInputs) \/ FromDir(1, ValidatorInputs) \/ Step(1)

SpecValidators == Init /\ [][NextValidators]_vars

\* Concurrent marshal calls on one marshaler.
NextConcurrent ==
    \E c \in Calls :
        FromImage(c, ConcurrentInputs) \/ FromDir(c, ConcurrentInputs) \/ Step(c)

SpecConcurrent == Init /\ [][NextConcurrent]_vars

-----------------------------------------------------------------------------
(* Vocabulary of the properties *)

Done(c) == pc[c] = "done"
Res(c) == Deref(result[c])
Succeeded(c) == Done(c) /\ ~Res(c).panic /\ Res(c).err = NoErr
Marks(c) == {ran[c][i] : i \in 1..Len(ran[c])}
LintMarks == {"Lint:Configuration", "Lint:Provider"}

-----------------------------------------------------------------------------
(* C1: when the parser returns a package whose meta list has length 0 or    *)
(* more than 1, the call returns the error "not exactly one package meta    *)
(* type" and no package; no linter, no dependency extraction and no         *)
(* validator building has run and nothing of a package was built.           *)

C1_NotExactlyOneMeta ==
    \A c \in Calls :
        (input[c] # Nil /\ "Parse" \in Marks(c) /\ ~In(c).parsed.err
            /\ Len(In(c).parsed.metas) # 1 /\ pc[c] # "classify")
        => /\ Done(c)
           /\ Res(c) = [pkg |-> Nil, err |-> <<errNotExactlyOneMeta>>, panic |-> FALSE]
           /\ Marks(c) \cap (LintMarks \cup {"determineDeps", "validators", "assemble"}) = {}
           /\ pkg[c] = Nil /\ args[c] = Nil /\ deps[c] = Nil /\ v[c] = EmptyMap

C1_Witness ==
    \E c \in Calls :
        /\ Done(c) /\ "Parse" \in Marks(c)
        /\ Len(In(c).parsed.metas) > 1
        /\ Res(c).err = <<errNotExactlyOneMeta>>

-----------------------------------------------------------------------------
(* C2: once parse has linted a package with exactly one meta object, the    *)
(* linter that ran is the Configuration linter if the meta kind is          *)
(* "Configuration" and the Provider linter otherwise; if linting passed,    *)
(* the package type is Configuration in the first case and Provider in the  *)
(* second.                                                                  *)

C2_TypeFollowsMetaKind ==
    \A c \in Calls :
        (Marks(c) \cap LintMarks # {})
        => LET kind == In(c).parsed.metas[1].kind
               isConf == kind = "Configuration"
           IN  /\ Len(In(c).parsed.metas) = 1
               /\ Marks(c) \cap LintMarks =
                      {IF isConf THEN "Lint:Configuration" ELSE "Lint:Provider"}
               /\ pkg[c] # Nil
                    => /\ ~In(c).lint[IF isConf THEN "Configuration" ELSE "Provider"]
                       /\ (Deref(pkg[c]).PType = "Configuration") <=> isConf
                       /\ ~isConf => Deref(pkg[c]).PType = "Provider"
                       /\ Deref(pkg[c]).MetaObj = Ptr(In(c).parsed.metas[1])
               /\ (pkg[c] = Nil)
                    => /\ Done(c)
                       /\ Res(c).err = <<errLintPackage, "linter: package rejected">>

C2_Witness ==
    \E c \in Calls :
        /\ Succeeded(c)
        /\ In(c).parsed.metas[1].kind = "Function"
        /\ Deref(Res(c).pkg).PType = "Provider"
        /\ In(c).lint["Configuration"]

-----------------------------------------------------------------------------
(* C3: every finished call has returned either an error and no package, or  *)
(* no error and a package in which all nine fields have been assigned.      *)
(* A version of a v1 CustomResourceDefinition or of a composite resource    *)
(* definition that has no schema makes the call panic instead (lines 291,   *)
(* 304, 321), which is neither.                                             *)

C3_ErrorOrCompletePackage ==
    \A c \in Calls :
        Done(c)
        => /\ ~Res(c).panic
           /\ \/ Res(c).err # NoErr /\ Res(c).pkg = Nil
              \/ /\ Res(c).err = NoErr
                 /\ Res(c).pkg # Nil
                 /\ Deref(Res(c).pkg).set = PackageFields

-----------------------------------------------------------------------------
(* C4 as stated: once the dispatch loop has run to its end on a list that   *)
(* holds an unrecognized body object, the call has returned                 *)
(* UnknownObjectType and no package.                                        *)

FirstUnknown(objs) ==
    LET U == {i \in 1..Len(objs) : objs[i].shape \notin KnownShapes}
    IN  IF U = {} THEN 0 ELSE CHOOSE i \in U : \A j \in U : i <= j

C4_UnknownAlwaysReported ==
    \A c \in Calls :
        (Done(c) /\ ~Res(c).panic /\ deps[c] # Nil
            /\ FirstUnknown(In(c).parsed.objs) > 0)
        => Res(c) = [pkg |-> Nil, err |-> <<errObjectNotKnownType>>, panic |-> FALSE]

(* C4 as amended: the loop never passes an unrecognized body object and the *)
(* call returns no package, hence no schema index; the failure is           *)
(* UnknownObjectType when every body object before the first unrecognized   *)
(* one was processed successfully, and otherwise the failure of the first   *)
(* body object that fails.                                                  *)

C4_UnknownNeverSkipped ==
    \A c \in Calls :
        (deps[c] # Nil /\ FirstUnknown(In(c).parsed.objs) > 0)
        => LET u == FirstUnknown(In(c).parsed.objs)
           IN  /\ idx[c] <= u
               /\ Done(c) => Res(c).pkg = Nil /\ (Res(c).panic \/ Res(c).err # NoErr)
               /\ (Done(c) /\ idx[c] = u)
                    => Res(c) = [pkg |-> Nil, err |-> <<errObjectNotKnownType>>,
                                 panic |-> FALSE]
               /\ (Done(c) /\ idx[c] < u)
                    => Res(c).err # <<errObjectNotKnownType>>

C4_Witness ==
    \E c \in Calls :
        /\ Done(c) /\ deps[c] # Nil
        /\ FirstUnknown(In(c).parsed.objs) = 2 /\ idx[c] = 2
        /\ DOMAIN v[c] # {}
        /\ Res(c).err = <<errObjectNotKnownType>>

-----------------------------------------------------------------------------
(* C5 as stated: every extracted dependency is the Provider entry, the      *)
(* Configuration entry, or, when both references or neither are set, the    *)
(* zero value of a dependency.                                              *)

SourceDeps(c) == In(c).parsed.metas[1].deps
OnlyProvider(d) == d.Provider # Nil /\ d.Configuration = Nil
OnlyConfiguration(d) == d.Configuration # Nil /\ d.Provider = Nil

C5_Cases(c, anomalous(_)) ==
    deps[c] # Nil
    => \A i \in 1..Len(SourceDeps(c)) :
          LET d == SourceDeps(c)[i]
              out == Deref(deps[c])[i]
          IN  /\ OnlyProvider(d)
                   => out = [Package |-> d.Provider[1], Type |-> "Provider",
                             Constraints |-> d.Version]
              /\ OnlyConfiguration(d)
                   => out = [Package |-> d.Configuration[1], Type |-> "Configuration",
                             Constraints |-> d.Version]
              /\ (~OnlyProvider(d) /\ ~OnlyConfiguration(d)) => out = anomalous(d)

C5_AnomalousIsZeroValue ==
    \A c \in Calls :
        C5_Cases(c, LAMBDA d : [Package |-> "", Type |-> "", Constraints |-> ""])

(* C5 as amended: when both references or neither are set the entry has an  *)
(* empty package reference and no package type but still carries the        *)
(* source's version constraint; no error is raised.                         *)

C5_AnomalousKeepsConstraint ==
    \A c \in Calls :
        /\ C5_Cases(c, LAMBDA d : [Package |-> "", Type |-> "",
                                   Constraints |-> d.Version])
        /\ (deps[c] = Nil /\ Done(c) /\ "determineDeps" \in Marks(c))
             => ~In(c).parsed.metas[1].convertible

C5_Witness ==
    \E c \in Calls :
        /\ Succeeded(c)
        /\ \E i, j \in 1..Len(SourceDeps(c)) :
              /\ SourceDeps(c)[i].Provider # Nil /\ SourceDeps(c)[i].Configuration # Nil
              /\ SourceDeps(c)[j].Provider = Nil /\ SourceDeps(c)[j].Configuration = Nil
              /\ Deref(Deref(Res(c).pkg).Deps)[i] =
                    [Package |-> "", Type |-> "", Constraints |-> ">=v1.0.0"]
              /\ Deref(Deref(Res(c).pkg).Deps)[j].Type = ""

-----------------------------------------------------------------------------
(* C6: when the meta object converts, the extracted list has the length of  *)
(* the declared list, its i-th entry is the conversion of the i-th declared *)
(* dependency, and a package that is returned carries that list; when it    *)
(* does not convert the call returns "failed to convert meta to package"    *)
(* and no list.                                                             *)

C6_DepsInOrder ==
    \A c \in Calls :
        "determineDeps" \in Marks(c)
        => IF In(c).parsed.metas[1].convertible
           THEN /\ deps[c] # Nil
                /\ Len(Deref(deps[c])) = Len(SourceDeps(c))
                /\ \A i \in 1..Len(SourceDeps(c)) :
                      Deref(deps[c])[i] = convertToV1beta1(SourceDeps(c)[i])
                /\ Succeeded(c) => Deref(Res(c).pkg).Deps = deps[c]
           ELSE /\ deps[c] = Nil
                /\ Done(c)
                /\ Res(c) = [pkg |-> Nil, err |-> <<errFailedToConvertMetaToPackage>>,
                              panic |-> FALSE]

C6_Witness ==
    \E c \in Calls :
        /\ Succeeded(c)
        /\ Len(SourceDeps(c)) = 2
        /\ SourceDeps(c)[1] = SourceDeps(c)[2]
        /\ SourceDeps(c)[1].Provider = Nil /\ SourceDeps(c)[1].Configuration = Nil
        /\ Len(Deref(Deref(Res(c).pkg).Deps)) = 2

-----------------------------------------------------------------------------
(* C7: right after the loop has processed a legacy CustomResourceDefinition *)
(* that carries a top-level validation schema, the index holds an entry for *)
(* every declared version of it and each is the validator built from the    *)
(* top-level schema, whatever schema the version itself carries (and these  *)
(* are all the entries when the object is the first of the list); without a *)
(* top-level schema the entry of a version is the validator built from that *)
(* version's own schema.                                                    *)

\* The object the loop processed last, in a state where it has succeeded.
LastProcessed(c) == Deref(Deref(pkg[c]).Objs)[idx[c] - 1]

AfterObject(c) ==
    /\ pc[c] = "validators" \/ Succeeded(c)
    /\ deps[c] # Nil
    /\ idx[c] >= 2

DeclaredNames(o) ==
    IF Len(o.Versions) = 0
    THEN (IF o.Version = "" THEN {} ELSE {o.Version})
    ELSE {o.Versions[i].Name : i \in 1..Len(o.Versions)}

\* The schema of the last version of o named n.
OwnSchema(o, n) ==
    IF Len(o.Versions) = 0 THEN Nil
    ELSE LET I == {i \in 1..Len(o.Versions) : o.Versions[i].Name = n}
         IN  o.Versions[CHOOSE i \in I : \A j \in I : j <= i].Schema

-----------------------------------------------------------------------------
(* C8: a FromDir call whose path does not hold exactly one "@" returns      *)
(* "invalid path provided for package lookup" at once: the directory is not *)
(* walked and the parser is not called.  With exactly one "@" the call      *)
(* never fails on the path; it succeeds when every collaborator accepts the *)
(* package, and the version of the package is the text after the "@".       *)

Separators(path) == {i \in 1..Len(path) : path[i] = "@"}

AfterSeparator(path) ==
    LET i == CHOOSE k \in Separators(path) : TRUE
    IN  Text(SubSeq(path, i + 1, Len(path)))

GoodObject(o) ==
    /\ o.shape \in KnownShapes
    /\ ~o.convErr
    /\ o.Validation # <<BadDoc>>
    /\ \A i \in 1..Len(o.Versions) : o.Versions[i].Schema \notin {Nil, <<BadDoc>>}

GoodPackage(in) ==
    /\ ~in.fs.err /\ ~in.parsed.err
    /\ Len(in.parsed.metas) = 1
    /\ in.parsed.metas[1].convertible
    /\ ~in.lint["Configuration"] /\ ~in.lint["Provider"]
    /\ \A i \in 1..Len(in.parsed.objs) : GoodObject(in.parsed.objs[i])

C8_PathForm ==
    \A c \in Calls :
        (input[c] # Nil /\ In(c).mode = "FromDir")
        => IF Cardinality(Separators(In(c).path)) # 1
           THEN /\ Done(c)
                /\ Res(c) = [pkg |-> Nil, err |-> <<errInvalidPath>>, panic |-> FALSE]
                /\ ran[c] = <<"Split">>
                /\ reader[c] = Nil /\ pkg[c] = Nil
           ELSE Done(c)
                => /\ Res(c).err # <<errInvalidPath>>
                   /\ GoodPackage(In(c)) => Succeeded(c)
                   /\ Succeeded(c)
                        => Deref(Res(c).pkg).Ver = AfterSeparator(In(c).path)

C8_Witness ==
    \E c \in Calls :
        /\ Succeeded(c)
        /\ In(c).mode = "FromDir"
        /\ In(c).path = <<"foo", "@", "v1.2.3">>
        /\ Deref(Res(c).pkg).Ver = "v1.2.3"

-----------------------------------------------------------------------------
(* C9: the derived name is the repository path for the registry             *)
(* "index.docker.io" and registry "/" repository path for any other; every  *)
(* package returned carries that name and the registry the caller passed.   *)

C9_DerivedName ==
    /\ derivePkgName("index.docker.io", "myrepo") = "myrepo"
    /\ derivePkgName("xpkg.upbound.io", "myrepo") = "xpkg.upbound.io/myrepo"
    /\ \A c \in Calls :
          Succeeded(c)
          => /\ Deref(Res(c).pkg).Reg = In(c).reg
             /\ Deref(Res(c).pkg).DepName =
                   IF In(c).reg = "index.docker.io"
                   THEN In(c).repo
                   ELSE In(c).reg \o "/" \o In(c).repo

C9_Witness ==
    \E c \in Calls :
        /\ Succeeded(c)
        /\ In(c).reg = "index.docker.io"
        /\ In(c).repo = "upbound/provider-aws"
        /\ Deref(Res(c).pkg).DepName = "upbound/provider-aws"
        /\ Deref(Res(c).pkg).Reg = "index.docker.io"

-----------------------------------------------------------------------------
(* C10: with several calls running concurrently on one marshaler, every     *)
(* call that finishes returns what the same call returns when it runs       *)
(* alone: the result is the function MarshalAlone of the call's own input,  *)
(* the digest of a directory call included.                                 *)

\* The digest a walk of the call's own directory leaves in `digest`.
WalkDigest(in) ==
    LET w == WalkOrder(in)
        M == {i \in 1..Len(w) : ~SkipDirs(w[i]) /\ skipDigestMatch(w[i])}
    IN  IF M = {} THEN ""
        ELSE Text(Base(w[CHOOSE i \in M : \A j \in M : j <= i].path))

\* The loop of finalizePkg run to its end or to its first failure.
RECURSIVE RangeObjects(_, _)
RangeObjects(objs, acc) ==
    IF objs = << >> THEN [acc |-> acc, err |-> NoErr, panic |-> FALSE]
    ELSE LET r == Dispatch(Head(objs), acc)
         IN  IF r.panic \/ r.err # NoErr THEN r ELSE RangeObjects(Tail(objs), r.acc)

Failure(err) == [pkg |-> Nil, err |-> err, panic |-> FALSE]

\* parse and finalizePkg of a call run alone, given the digest acquired.
ParseAndFinalizeAlone(in, digest) ==
    IF in.parsed.err
    THEN Failure(errorsWrap(<<"parser: malformed stream">>, errFailedToParsePkgYaml))
    ELSE IF ~ExactlyOneMeta(in.parsed.metas)
    THEN Failure(errorsNew(errNotExactlyOneMeta))
    ELSE LET meta == in.parsed.metas[1]
             cl == Classify(meta)
             ds == determineDeps(meta)
             vs == RangeObjects(in.parsed.objs, EmptyMap)
         IN  IF in.lint[cl.linter]
             THEN Failure(errorsWrap(<<"linter: package rejected">>, errLintPackage))
             ELSE IF ds.err # NoErr THEN Failure(ds.err)
             ELSE IF vs.panic THEN [pkg |-> Nil, err |-> NoErr, panic |-> TRUE]
             ELSE IF vs.err # NoErr THEN Failure(vs.err)
             ELSE [pkg |-> Ptr([MetaObj |-> Ptr(meta), Objs |-> Ptr(in.parsed.objs),
                                PType |-> cl.pkgType, Deps |-> ds.out,
                                GVKtoV |-> Ptr(vs.acc),
                                DepName |-> derivePkgName(in.reg, in.repo),
                                Reg |-> in.reg, SHA |-> digest,
                                Ver |-> VersionArg(in), set |-> PackageFields]),
                   err |-> NoErr, panic |-> FALSE]

MarshalAlone(in) ==
    IF in.mode = "FromImage"
    THEN IF in.image.digestErr
         THEN Failure(errorsWrap(<<"image: no digest">>, errFaileToAcquireDigest))
         ELSE IF ~in.image.hasStream
         THEN Failure(errorsWrap(<<"file does not exist">>, errOpenPackageStream))
         ELSE ParseAndFinalizeAlone(in, in.image.digest)
    ELSE IF InvalidPath(in.path) THEN Failure(errorsNew(errInvalidPath))
         ELSE IF in.fs.err THEN Failure(<<"walk: cannot read directory">>)
         ELSE ParseAndFinalizeAlone(in, WalkDigest(in))

C10_SameResultAsAlone ==
    \A c \in Calls : Done(c) => Res(c) = MarshalAlone(In(c))

C10_Witness ==
    \E c, d \in Calls :
        /\ c # d
        /\ Succeeded(c) /\ Succeeded(d)
        /\ In(c).mode = "FromDir" /\ In(d).mode = "FromDir"
        /\ Deref(Res(c).pkg).SHA = "sha256:abc"
        /\ Deref(Res(d).pkg).SHA = "sha256:def"

-----------------------------------------------------------------------------
(* C11: within one call the stages run in the order acquire, parse,         *)
(* meta check and lint, dependency extraction and validator building,       *)
(* assembly; a stage runs only if every earlier stage has succeeded, no     *)
(* stage runs twice (a loop visits each entry or body object at most        *)
(* once), and a call that fails has stopped at the first stage that fails   *)
(* for its input and ends with that stage's failure.                        *)

\* One call over inputs in which any number of stages fail at once.
StageObjectLists ==
    { << >>,
      <<Object(V1CRD, "Bucket", <<[Name |-> "v1", Schema |-> Ptr("s1")]>>, Nil, "", FALSE)>>,
      <<Object(V1XRD, "XBucket", <<[Name |-> "v1", Schema |-> Ptr(BadDoc)]>>, Nil, "", FALSE)>>,
      <<Object(V1CRD, "Bucket", <<[Name |-> "v1", Schema |-> Nil]>>, Nil, "", FALSE)>>,
      <<Composition>>,
      <<Object(V1CRD, "Bucket", <<[Name |-> "v1", Schema |-> Ptr("s1")]>>, Nil, "", FALSE),
        Composition>> }

StageBases == {b \in Bases : b.reg = dockerhub /\ b.repo = "myrepo"}

StageInputs ==
    {[b EXCEPT !.image = [digestErr |-> a1 /\ b.mode = "FromImage",
                          digest |-> b.image.digest,
                          hasStream |-> ~a2 /\ b.mode = "FromImage"],
               !.path = IF a1 /\ b.mode = "FromDir" THEN <<"foo">> ELSE b.path,
               !.fs = [err |-> a2 /\ b.mode = "FromDir", files |-> b.fs.files],
               !.parsed = [err |-> pe, metas |-> ms, objs |-> os],
               !.lint = [Configuration |-> le, Provider |-> le]] :
        b \in StageBases, a1 \in BOOLEAN, a2 \in BOOLEAN, pe \in BOOLEAN,
        le \in BOOLEAN, os \in StageObjectLists,
        ms \in SeqsUpTo({MetaObject(k, cv, << >>) :
                            k \in {ConfigurationKind, "Provider"}, cv \in BOOLEAN},
                        MaxMetas)}

NextStages == FromImage(1, StageInputs) \/ FromDir(1, StageInputs) \/ Step(1)

SpecStages == Init /\ [][NextStages]_vars

StageOf(mark) ==
    CASE mark \in {"Digest", "Open", "Split", "Walk", "Reader"} -> 1
      [] mark = "Parse" -> 2
      [] mark \in {"Metas"} \cup LintMarks -> 3
      [] mark \in {"determineDeps", "validators"} -> 4
      [] mark = "assemble" -> 5

Count(c, mark) == Cardinality({i \in 1..Len(ran[c]) : ran[c][i] = mark})

\* What each stage answers for an input, were it to run.
AcquireFailure(in) ==
    IF in.mode = "FromImage"
    THEN IF in.image.digestErr THEN <<errFaileToAcquireDigest, "image: no digest">>
         ELSE IF ~in.image.hasStream THEN <<errOpenPackageStream, "file does not exist">>
         ELSE NoErr
    ELSE IF Cardinality(Separators(in.path)) # 1 THEN <<errInvalidPath>>
         ELSE IF in.fs.err THEN <<"walk: cannot read directory">>
         ELSE NoErr

ParseFailure(in) ==
    IF in.parsed.err THEN <<errFailedToParsePkgYaml, "parser: malformed stream">> ELSE NoErr

LintFailure(in) ==
    IF Len(in.parsed.metas) # 1 THEN <<errNotExactlyOneMeta>>
    ELSE IF in.lint[IF in.parsed.metas[1].kind = "Configuration"
                    THEN "Configuration" ELSE "Provider"]
         THEN <<errLintPackage, "linter: package rejected">>
         ELSE NoErr

\* The body objects that fail on their own: returned error or panic.
ObjectFails(o) == LET r == Dispatch(o, EmptyMap) IN r.panic \/ r.err # NoErr

FirstFailingObject(in) ==
    LET B == {i \in 1..Len(in.parsed.objs) : ObjectFails(in.parsed.objs[i])}
    IN  IF B = {} THEN 0 ELSE CHOOSE i \in B : \A j \in B : i <= j

BuildFails(in) ==
    Len(in.parsed.metas) = 1
    /\ (~in.parsed.metas[1].convertible \/ FirstFailingObject(in) > 0)

\* The first stage that fails for an input; 6 when none does.
FirstFailingStage(in) ==
    IF AcquireFailure(in) # NoErr THEN 1
    ELSE IF ParseFailure(in) # NoErr THEN 2
    ELSE IF LintFailure(in) # NoErr THEN 3
    ELSE IF BuildFails(in) THEN 4
    ELSE 6

C11_StagesInOrder ==
    \A c \in Calls :
        input[c] # Nil
        => LET in == In(c)
               ffs == FirstFailingStage(in)
           IN  /\ \A i, j \in 1..Len(ran[c]) :
                     i < j => StageOf(ran[c][i]) <= StageOf(ran[c][j])
               /\ \A i \in 1..Len(ran[c]) : StageOf(ran[c][i]) <= ffs
               /\ \A m \in {"Digest", "Open", "Split", "Reader", "Parse", "Metas",
                              "Lint:Configuration", "Lint:Provider", "determineDeps",
                              "assemble"} : Count(c, m) <= 1
               /\ Count(c, "Walk") <= Len(WalkOrder(in))
               /\ Count(c, "validators") <= Len(in.parsed.objs)
               /\ Count(c, "Metas") + Count(c, "Lint:Configuration")
                      + Count(c, "Lint:Provider") <= 1
               /\ Done(c)
                    => /\ StageOf(ran[c][Len(ran[c])]) = IF ffs = 6 THEN 5 ELSE ffs
                       /\ Succeeded(c) <=> ffs = 6
                       /\ ffs = 1 => Res(c) = [pkg |-> Nil, err |-> AcquireFailure(in),
                                                panic |-> FALSE]
                       /\ ffs = 2 => Res(c) = [pkg |-> Nil, err |-> ParseFailure(in),
                                                panic |-> FALSE]
                       /\ ffs = 3 => Res(c) = [pkg |-> Nil, err |-> LintFailure(in),
                                                panic |-> FALSE]
                       /\ ffs = 4
                            => IF ~in.parsed.metas[1].convertible
                               THEN /\ Res(c).err = <<errFailedToConvertMetaToPackage>>
                                    /\ Count(c, "validators") = 0
                               ELSE /\ Count(c, "validators") = FirstFailingObject(in)
                                    /\ Res(c).pkg = Nil
                                    /\ Res(c).panic \/ Res(c).err # NoErr

C11_Witness ==
    \E c \in Calls :
        /\ Done(c)
        /\ In(c).mode = "FromDir"
        /\ In(c).parsed.err
        /\ In(c).lint["Provider"]
        /\ Len(In(c).parsed.metas) = 1 /\ ~In(c).parsed.metas[1].convertible
        /\ In(c).parsed.objs = <<Composition>>
        /\ Res(c).err = <<errFailedToParsePkgYaml, "parser: malformed stream">>
        /\ ran[c][Len(ran[c])] = "Parse"

-----------------------------------------------------------------------------
(* C12: after a successful pass over the body objects the keys of the       *)
(* schema index are exactly the (group, version, kind) triples the versions *)
(* of the body objects declare; a triple declared more than once holds the  *)
(* validator of its last declaration in body-object and version order, and  *)
(* a pass fails only on an object that fails by itself, never on a          *)
(* duplicate.                                                               *)

\* The versions an object declares, in order; a legacy definition that lists
\* none declares its singular spec.version.
DeclaredVersions(o) ==
    IF o.shape = V1Beta1CRD /\ Len(o.Versions) = 0 /\ o.Version # ""
    THEN <<[Name |-> o.Version, Schema |-> Nil]>>
    ELSE o.Versions

\* The declarations of a body-object list: <<i, j>> is version j of object i.
Declarations(objs) ==
    UNION {{<<i, j>> : j \in 1..Len(DeclaredVersions(objs[i]))} : i \in 1..Len(objs)}

DeclaredKey(objs, d) ==
    gvk(objs[d[1]].Group, DeclaredVersions(objs[d[1]])[d[2]].Name, objs[d[1]].Kind)

\* The validator a declaration stands for.
DeclaredValidator(objs, d) ==
    LET o == objs[d[1]]
        schema == DeclaredVersions(o)[d[2]].Schema
    IN  IF o.shape = V1Beta1CRD /\ o.Validation # Nil
        THEN <<[schema |-> o.Validation[1]]>>
        ELSE IF schema = Nil THEN <<[schema |-> "empty"]>>
        ELSE <<[schema |-> schema[1]]>>

Later(d, e) == d[1] < e[1] \/ (d[1] = e[1] /\ d[2] < e[2])

-----------------------------------------------------------------------------
(* C13: in directory mode every file (not directory) whose base name begins *)
(* with "sha256:" is kept out of the stream handed to the parser, at any    *)
(* depth of the tree, and the name of the last such file in walk order is   *)
(* the digest of the returned package; directories are never part of the    *)
(* stream nor a digest; without such a file the digest is empty and the     *)
(* walk does not fail, so the digest of a package returned by FromDir is    *)
(* empty or a file name beginning with "sha256:".                           *)

IsDigestFile(e) == ~e.isDir /\ Base(e.path)[1] = digestPrefix

\* The positions of the walk that hold a digest file.
DigestFiles(in) == {i \in 1..Len(WalkOrder(in)) : IsDigestFile(WalkOrder(in)[i])}

\* The paths of the files that are not digest files, in walk order.
StreamFiles(in) ==
    LET keep == SelectSeq(WalkOrder(in), LAMBDA e : ~e.isDir /\ ~IsDigestFile(e))
    IN  [k \in 1..Len(keep) |-> keep[k].path]

LastDigestName(in) ==
    IF DigestFiles(in) = {} THEN ""
    ELSE LET last == CHOOSE i \in DigestFiles(in) : \A j \in DigestFiles(in) : j <= i
         IN  Text(Base(WalkOrder(in)[last].path))

Walked(c) == input[c] # Nil /\ In(c).mode = "FromDir" /\ "Reader" \in Marks(c)

C13_EveryDigestFileFiltered ==
    \A c \in Calls :
        /\ Walked(c)
             => /\ reader[c] = Ptr(StreamFiles(In(c)))
                /\ Succeeded(c)
                     => /\ Deref(Res(c).pkg).SHA = LastDigestName(In(c))
                        /\ Deref(Res(c).pkg).SHA \in
                              {""} \cup {Text(Base(FileUniverse[i].path)) :
                                            i \in {j \in 1..Len(FileUniverse) :
                                                      IsDigestFile(FileUniverse[j])}}
        /\ (Done(c) /\ In(c).mode = "FromDir" /\ ran[c][Len(ran[c])] = "Walk")
             => In(c).fs.err

\* The files of the directory that the stream handed to the parser lacks.
Recognized(c) ==
    {i \in 1..Len(WalkOrder(In(c))) :
        /\ ~WalkOrder(In(c))[i].isDir
        /\ \A k \in 1..Len(Deref(reader[c])) :
              Deref(reader[c])[k] # WalkOrder(In(c))[i].path}

\* The statement as first worded: one file at most is recognized, and its
\* name is the digest.
C13_ExactlyOneDigestFile ==
    \A c \in Calls :
        Walked(c)
        => /\ Cardinality(Recognized(c)) <= 1
           /\ Succeeded(c)
                => Deref(Res(c).pkg).SHA \in
                      {""} \cup {Text(Base(WalkOrder(In(c))[i].path)) : i \in Recognized(c)}

C13_Witness ==
    \E c \in Calls :
        /\ Walked(c) /\ Succeeded(c)
        /\ In(c).fs.files = {1, 2, 3}
        /\ reader[c] = Ptr(<< << <<"package.yaml">> >> >>)
        /\ Deref(Res(c).pkg).SHA = "sha256:def"

-----------------------------------------------------------------------------
(* C14: every error a call returns carries, as its outermost message, a     *)
(* context message of the marshaler identifying the stage that failed; no   *)
(* error of a collaborator (directory walk, schema conversion or decoding)  *)
(* is returned as the collaborator produced it.                             *)

StageMessages ==
    {errFailedToParsePkgYaml, errLintPackage, errOpenPackageStream,
     errFaileToAcquireDigest, errFailedToConvertMetaToPackage, errInvalidPath,
     errNotExactlyOneMeta, errObjectNotKnownType}

C14_CollaboratorErrorsWrapped ==
    \A c \in Calls :
        (Done(c) /\ ~Res(c).panic /\ Res(c).err # NoErr)
        => Res(c).err[1] \in StageMessages

====
